---- MODULE Spec2Model ----
(***************************************************************************)
(* A model of TMSU's tag, status and dupes commands: the store of File,    *)
(* Tag and FileTag records, the live filesystem they are reconciled with, *)
(* and one action per command invocation.                                  *)
(***************************************************************************)
EXTENDS Integers, Sequences, FiniteSets, TLC

\* ------------------------------------------------------------------ bounds
\* Modification times are counted in ticks; a second holds TicksPerSecond ticks.
MaxTime == 2
TicksPerSecond == 2
\* Longest list of tag names and of path arguments given to one command.
MaxTags == 2
MaxPaths == 2
\* Number of filesystem changes made by other processes, and of tag commands.
MaxFsOps == 1
MaxTagOps == 2
\* Largest content value of a regular file (0 is the content with the empty fingerprint).
MaxContent == 1

\* ------------------------------------------------------------------- paths
\* An absolute path is the sequence of its components below the root.
Cwd == <<"a">>

DirPaths == { <<"a">>, <<"a", "b">> }

FilePaths == { <<"a", "b", "c">>, <<"a", "x">> }

AllPaths == DirPaths \cup FilePaths

\* Directory order: the order in which a directory's entries are enumerated.
EntryOrder == << <<"a">>, <<"a", "b">>, <<"a", "b", "c">>, <<"a", "x">> >>

\* A path argument as typed: absolute, or relative to the working directory.
PathArgs ==
    { [abs |-> TRUE, comps |-> <<"a">>], [abs |-> TRUE, comps |-> <<"a", "b", "c">>],
      [abs |-> FALSE, comps |-> <<"x">>] }

\* filepath.Abs: a relative path is joined to the working directory.
Abs(arg) == IF arg.abs THEN arg.comps ELSE Cwd \o arg.comps

\* filepath.Dir: the path without its last component.
Dir(path) == IF Len(path) = 0 THEN path ELSE SubSeq(path, 1, Len(path) - 1)

\* filepath.Join(dir, name)
Join(dir, name) == Append(dir, name)

IsPrefix(p, q) == Len(p) <= Len(q) /\ SubSeq(q, 1, Len(p)) = p

\* p is an ancestor of q at any distance.
IsAncestor(p, q) == Len(p) < Len(q) /\ IsPrefix(p, q)

\* ------------------------------------------------------- sequence helpers
Range(s) == { s[i] : i \in 1..Len(s) }

SeqsUpTo(S, n) == UNION { [1..k -> S] : k \in 0..n }

NonEmptySeqsUpTo(S, n) == UNION { [1..k -> S] : k \in 1..n }

\* The member of a one-member set. A call's result that is read several times is
\* held as a local variable: Only({ e(r) : r \in { call } }) is e of the result.
Only(S) == CHOOSE x \in S : TRUE

RECURSIVE SelectPaths(_, _)
\* The members of the sequence `order` that are in the set `S`, in that order.
SelectPaths(order, S) ==
    IF order = <<>> THEN <<>>
    ELSE (IF Head(order) \in S THEN <<Head(order)>> ELSE <<>>)
             \o SelectPaths(Tail(order), S)

RECURSIVE Flatten(_)
Flatten(ss) == IF ss = <<>> THEN <<>> ELSE Head(ss) \o Flatten(Tail(ss))

\* -------------------------------------------------------------- filesystem
\* fs[p] = [state, mtime, content]: state is "ok", "gone" (stat: not found),
\* "denied" (stat: permission denied) or "ioerr" (stat: another I/O error).
FsStates == {"ok", "gone", "denied", "ioerr"}

\* os.Stat
Stat(f, path) ==
    IF path \notin DOMAIN f \/ f[path].state = "gone"
        THEN [err |-> "notexist", isDir |-> FALSE, modTime |-> 0]
    ELSE IF f[path].state = "denied"
        THEN [err |-> "permission", isDir |-> FALSE, modTime |-> 0]
    ELSE IF f[path].state = "ioerr"
        THEN [err |-> "io", isDir |-> FALSE, modTime |-> 0]
    ELSE [err |-> "none", isDir |-> path \in DirPaths, modTime |-> f[path].mtime]

\* time.Time.Unix: the time truncated to whole seconds.
Unix(t) == t \div TicksPerSecond

\* isDir (status): a failed stat is "not a directory".
isDir(f, path) == LET info == Stat(f, path) IN info.err = "none" /\ info.isDir

\* common.IsDir: it returns a bool and no error, as isDir does.
IsDir(f, path) == isDir(f, path)

\* os.File.Readdir / Readdirnames: the entries of a directory, in directory order.
Readdir(f, path) ==
    SelectPaths(EntryOrder,
                { p \in DOMAIN f : Len(p) = Len(path) + 1 /\ IsPrefix(path, p)
                                      /\ f[p].state # "gone" })

RECURSIVE FingerprintOf(_, _)
\* fingerprint.Create on a readable path: a file's digest is its content (the
\* empty fingerprint for content 0); a directory's is derived from its entries'
\* digests (negative numbers are the punctuation of a directory's digest).
FingerprintOf(f, path) ==
    IF path \in DirPaths
        THEN LET entries == Readdir(f, path)
             IN <<-1>> \o Flatten([i \in 1..Len(entries) |->
                    IF f[entries[i]].state = "ok"
                        THEN <<-2>> \o FingerprintOf(f, entries[i]) \o <<-3>>
                        ELSE <<-4>>])
    ELSE IF f[path].content = 0 THEN <<>> ELSE <<f[path].content>>

\* fingerprint.Create: fails when the path cannot be read.
CreateFingerprint(f, path) ==
    LET info == Stat(f, path)
    IN IF info.err # "none" THEN [err |-> info.err, fp |-> <<>>]
       ELSE [err |-> "none", fp |-> FingerprintOf(f, path)]

EmptyFingerprint == <<>>

\* ------------------------------------------------------------------- store
\* files: the File table, a File's id being its position; tags: the Tag table
\* (names), a Tag's id being its position; fileTags: the FileTag table.
NoFile == 0

\* db.FileByPath: the id of the File with that path, or NoFile.
FileByPath(fileTable, path) ==
    IF \E i \in 1..Len(fileTable) : fileTable[i].path = path
        THEN CHOOSE i \in 1..Len(fileTable) :
                 fileTable[i].path = path
                     /\ \A j \in 1..(i - 1) : fileTable[j].path # path
        ELSE NoFile

\* db.FilesByFingerprint: the ids of the Files with that fingerprint, in id order.
FilesByFingerprint(fileTable, fp) ==
    SelectSeq([i \in 1..Len(fileTable) |-> i],
              LAMBDA i : fileTable[i].fingerprint = fp)

\* db.FilesByDirectory: the ids of the Files below that directory, at any depth.
FilesByDirectory(fileTable, path) ==
    SelectSeq([i \in 1..Len(fileTable) |-> i],
              LAMBDA i : IsAncestor(path, fileTable[i].path))

\* db.AddFile
AddFile(fileTable, path, fp, modTime) ==
    Append(fileTable, [path |-> path, fingerprint |-> fp, modTimestamp |-> modTime])

\* db.UpdateFile
UpdateFile(fileTable, id, path, fp, modTime) ==
    [fileTable EXCEPT ![id] =
        [path |-> path, fingerprint |-> fp, modTimestamp |-> modTime]]

\* db.TagByName: the id of the Tag with that name, or 0.
TagByName(tagTable, name) ==
    IF \E i \in 1..Len(tagTable) : tagTable[i] = name
        THEN CHOOSE i \in 1..Len(tagTable) :
                 tagTable[i] = name /\ \A j \in 1..(i - 1) : tagTable[j] # name
        ELSE 0

\* db.AddTag
AddTag(tagTable, name) == Append(tagTable, name)

\* db.FileTagByFileIdAndTagId: whether the association is recorded.
FileTagByFileIdAndTagId(fileTagTable, fileId, tagId) ==
    \E i \in 1..Len(fileTagTable) :
        fileTagTable[i] = [fileId |-> fileId, tagId |-> tagId]

\* db.AddFileTag
AddFileTag(fileTagTable, fileId, tagId) ==
    Append(fileTagTable, [fileId |-> fileId, tagId |-> tagId])

\* ------------------------------------------------------------- tag command
\* A tag name is the sequence of its characters.
HasChar(name, ch) == \E i \in 1..Len(name) : name[i] = ch

RECURSIVE FieldsFrom(_, _)
FieldsFrom(s, cur) ==
    LET flush == IF cur = <<>> THEN <<>> ELSE <<cur>>
    IN IF s = <<>> THEN flush
       ELSE IF Head(s) = " " THEN flush \o FieldsFrom(Tail(s), <<>>)
       ELSE FieldsFrom(Tail(s), Append(cur, Head(s)))

\* strings.Fields: the maximal runs of non-space characters.
Fields(s) == FieldsFrom(s, <<>>)

\* TagCommand.validateFileAdd: the error it returns ("none": nil).
validateFileAdd(fileTable, f, path) ==
    LET info == Stat(f, path)
    IN IF info.err # "none" THEN info.err
       ELSE IF info.isDir
           THEN IF Len(FilesByDirectory(fileTable, path)) > 0
                    THEN "hierarchy" ELSE "none"
       ELSE IF FileByPath(fileTable, Dir(path)) # NoFile
           THEN "hierarchy" ELSE "none"

\* addFile recording a new File before it validates the path.
addFileAddsFirst(fileTable, f, path) ==
    LET created == CreateFingerprint(f, path)
        file == FileByPath(fileTable, path)
        invalid == validateFileAdd(fileTable, f, path)
        info == Stat(f, path)
        added == IF file = NoFile /\ created.err = "none" /\ info.err = "none"
                     THEN AddFile(fileTable, path, created.fp, info.modTime)
                     ELSE fileTable
        failed(e) == [err |-> e, files |-> added, fileId |-> NoFile,
                      duplicates |-> <<>>]
    IN IF created.err # "none" THEN failed(created.err)
       ELSE IF invalid # "none" THEN failed(invalid)
       ELSE IF info.err # "none" THEN failed(info.err)
       ELSE [err |-> "none", files |-> added,
             fileId |-> FileByPath(added, path), duplicates |-> <<>>]

\* addFile comparing the stored and the live modification time to the tick, not
\* to the second.
addFileExactTime(fileTable, f, path) ==
    LET created == CreateFingerprint(f, path)
        file == FileByPath(fileTable, path)
        invalid == validateFileAdd(fileTable, f, path)
        info == Stat(f, path)
        failed(e) == [err |-> e, files |-> fileTable, fileId |-> NoFile,
                      duplicates |-> <<>>]
    IN IF created.err # "none" THEN failed(created.err)
       ELSE IF invalid # "none" THEN failed(invalid)
       ELSE IF info.err # "none" THEN failed(info.err)
       ELSE IF file = NoFile
           THEN LET found == FilesByFingerprint(fileTable, created.fp)
                IN [err |-> "none",
                    files |-> AddFile(fileTable, path, created.fp, info.modTime),
                    fileId |-> Len(fileTable) + 1,
                    duplicates |-> [i \in 1..Len(found) |-> fileTable[found[i]].path]]
       ELSE [err |-> "none",
             files |-> IF fileTable[file].modTimestamp # info.modTime
                           THEN UpdateFile(fileTable, file, fileTable[file].path,
                                           created.fp, info.modTime)
                           ELSE fileTable,
             fileId |-> file,
             duplicates |-> <<>>]

\* addFile dropping the File record of a path that is no longer on disk.
addFileForgetsMissing(fileTable, f, path) ==
    LET created == CreateFingerprint(f, path)
        file == FileByPath(fileTable, path)
        invalid == validateFileAdd(fileTable, f, path)
        info == Stat(f, path)
        failed(e) == [err |-> e, files |-> fileTable, fileId |-> NoFile,
                      duplicates |-> <<>>]
    IN IF created.err = "notexist" /\ file # NoFile
           THEN [err |-> created.err,
                 files |-> SelectSeq(fileTable, LAMBDA r : r.path # path),
                 fileId |-> NoFile, duplicates |-> <<>>]
       ELSE IF created.err # "none" THEN failed(created.err)
       ELSE IF invalid # "none" THEN failed(invalid)
       ELSE IF info.err # "none" THEN failed(info.err)
       ELSE IF file = NoFile
           THEN LET found == FilesByFingerprint(fileTable, created.fp)
                IN [err |-> "none",
                    files |-> AddFile(fileTable, path, created.fp, info.modTime),
                    fileId |-> Len(fileTable) + 1,
                    duplicates |-> [i \in 1..Len(found) |-> fileTable[found[i]].path]]
       ELSE [err |-> "none",
             files |-> IF Unix(fileTable[file].modTimestamp) # Unix(info.modTime)
                           THEN UpdateFile(fileTable, file, fileTable[file].path,
                                           created.fp, info.modTime)
                           ELSE fileTable,
             fileId |-> file,
             duplicates |-> <<>>]

\* TagCommand.addFile: [err, files, fileId, duplicates].
addFile(fileTable, f, path) ==
    LET created == CreateFingerprint(f, path)
        file == FileByPath(fileTable, path)
        invalid == validateFileAdd(fileTable, f, path)
        info == Stat(f, path)
        failed(e) == [err |-> e, files |-> fileTable, fileId |-> NoFile,
                      duplicates |-> <<>>]
    IN IF created.err # "none" THEN failed(created.err)
       ELSE IF invalid # "none" THEN failed(invalid)
       ELSE IF info.err # "none" THEN failed(info.err)
       ELSE IF file = NoFile
           THEN LET found == FilesByFingerprint(fileTable, created.fp)
                IN [err |-> "none",
                    files |-> AddFile(fileTable, path, created.fp, info.modTime),
                    fileId |-> Len(fileTable) + 1,
                    duplicates |-> [i \in 1..Len(found) |-> fileTable[found[i]].path]]
       ELSE [err |-> "none",
             files |-> IF Unix(fileTable[file].modTimestamp) # Unix(info.modTime)
                           THEN UpdateFile(fileTable, file, fileTable[file].path,
                                           created.fp, info.modTime)
                           ELSE fileTable,
             fileId |-> file,
             duplicates |-> <<>>]

\* TagCommand.addFile while another process changes the filesystem from f to g
\* once fingerprint.Create has returned: the fingerprint is of f, the two stats
\* (validateFileAdd's and addFile's own) are of g.
addFileRaced(fileTable, f, g, path) ==
    LET created == CreateFingerprint(f, path)
        file == FileByPath(fileTable, path)
        invalid == validateFileAdd(fileTable, g, path)
        info == Stat(g, path)
        failed(e) == [err |-> e, files |-> fileTable, fileId |-> NoFile,
                      duplicates |-> <<>>]
    IN IF created.err # "none" THEN failed(created.err)
       ELSE IF invalid # "none" THEN failed(invalid)
       ELSE IF info.err # "none" THEN failed(info.err)
       ELSE IF file = NoFile
           THEN LET found == FilesByFingerprint(fileTable, created.fp)
                IN [err |-> "none",
                    files |-> AddFile(fileTable, path, created.fp, info.modTime),
                    fileId |-> Len(fileTable) + 1,
                    duplicates |-> [i \in 1..Len(found) |-> fileTable[found[i]].path]]
       ELSE [err |-> "none",
             files |-> IF Unix(fileTable[file].modTimestamp) # Unix(info.modTime)
                           THEN UpdateFile(fileTable, file, fileTable[file].path,
                                           created.fp, info.modTime)
                           ELSE fileTable,
             fileId |-> file,
             duplicates |-> <<>>]

\* applyTag adding the FileTag without looking for one first.
applyTagNoLookup(tagTable, fileTagTable, fileId, tagName) ==
    LET failed(e) == [err |-> e, tags |-> tagTable, fileTags |-> fileTagTable]
    IN IF HasChar(tagName, ",") THEN failed("validation")
       ELSE IF HasChar(tagName, "=") THEN failed("validation")
       ELSE IF HasChar(tagName, " ") THEN failed("validation")
       ELSE IF Len(tagName) = 0 THEN failed("panic")
       ELSE IF tagName[1] = "-" THEN failed("validation")
       ELSE LET tag == TagByName(tagTable, tagName)
                tags2 == IF tag = 0 THEN AddTag(tagTable, tagName) ELSE tagTable
                tagId == IF tag = 0 THEN Len(tags2) ELSE tag
            IN [err |-> "none",
                tags |-> tags2,
                fileTags |-> AddFileTag(fileTagTable, fileId, tagId)]

\* TagCommand.applyTag: [err, tags, fileTags]. Indexing the first character of
\* an empty name is a run-time panic.
applyTag(tagTable, fileTagTable, fileId, tagName) ==
    LET failed(e) == [err |-> e, tags |-> tagTable, fileTags |-> fileTagTable]
    IN IF HasChar(tagName, ",") THEN failed("validation")
       ELSE IF HasChar(tagName, "=") THEN failed("validation")
       ELSE IF HasChar(tagName, " ") THEN failed("validation")
       ELSE IF Len(tagName) = 0 THEN failed("panic")
       ELSE IF tagName[1] = "-" THEN failed("validation")
       ELSE LET tag == TagByName(tagTable, tagName)
                tags2 == IF tag = 0 THEN AddTag(tagTable, tagName) ELSE tagTable
                tagId == IF tag = 0 THEN Len(tags2) ELSE tag
            IN [err |-> "none",
                tags |-> tags2,
                fileTags |->
                    IF FileTagByFileIdAndTagId(fileTagTable, fileId, tagId)
                        THEN fileTagTable
                        ELSE AddFileTag(fileTagTable, fileId, tagId)]

RECURSIVE applyTags(_, _, _, _)
\* The loop of tagPath over the tag names: it returns at the first error.
applyTags(tagTable, fileTagTable, fileId, tagNames) ==
    IF tagNames = <<>>
        THEN [err |-> "none", tags |-> tagTable, fileTags |-> fileTagTable]
    ELSE Only({ IF r.err # "none" THEN r
                ELSE applyTags(r.tags, r.fileTags, fileId, Tail(tagNames)) :
                r \in { applyTag(tagTable, fileTagTable, fileId, Head(tagNames)) } })

\* tagPath once addFile has returned `added`.
tagPathAdded(st, absPath, added, tagNames) ==
    IF added.err # "none"
        THEN [err |-> added.err, files |-> added.files, tags |-> st.tags,
              fileTags |-> st.fileTags, duplicates |-> <<>>, handleOpen |-> FALSE]
    ELSE Only({ [err |-> applied.err, files |-> added.files,
                 tags |-> applied.tags, fileTags |-> applied.fileTags,
                 duplicates |->
                     IF Len(added.duplicates) > 0
                         THEN << [path |-> absPath, of |-> added.duplicates] >>
                         ELSE <<>>,
                 handleOpen |-> FALSE] :
                applied \in { applyTags(st.tags, st.fileTags, added.fileId,
                                        tagNames) } })

\* TagCommand.tagPath on the store st = [files, tags, fileTags]:
\* [err, files, tags, fileTags, duplicates, handleOpen]. duplicates holds the
\* warning addFile printed, if any: the path and the Files it was called a
\* duplicate of. The deferred db.Close runs on every return and while a panic
\* unwinds.
tagPath(st, f, arg, tagNames) ==
    Only({ tagPathAdded(st, Abs(arg), added, tagNames) :
           added \in { addFile(st.files, f, Abs(arg)) } })

\* TagCommand.tagPath while another process changes the filesystem from f to g
\* between addFile's fingerprint.Create and its stats.
tagPathRaced(st, f, g, arg, tagNames) ==
    Only({ tagPathAdded(st, Abs(arg), added, tagNames) :
           added \in { addFileRaced(st.files, f, g, Abs(arg)) } })

\* The store calls of a tag command that change the store, and the first lookup.
StoreCalls == {"FileByPath", "AddFile", "UpdateFile", "AddTag", "AddFileTag"}

\* TagCommand.addFile while the store call `call` fails:
\* [err, files, fileId, duplicates, failed], failed telling whether the call
\* was made. The error UpdateFile returns is not looked at.
addFileFailing(fileTable, f, path, call) ==
    LET created == CreateFingerprint(f, path)
        file == FileByPath(fileTable, path)
        invalid == validateFileAdd(fileTable, f, path)
        info == Stat(f, path)
        stopped(e, made) == [err |-> e, files |-> fileTable, fileId |-> NoFile,
                             duplicates |-> <<>>, failed |-> made]
    IN IF created.err # "none" THEN stopped(created.err, FALSE)
       ELSE IF call = "FileByPath" THEN stopped("store", TRUE)
       ELSE IF invalid # "none" THEN stopped(invalid, FALSE)
       ELSE IF info.err # "none" THEN stopped(info.err, FALSE)
       ELSE IF file = NoFile
           THEN IF call = "AddFile" THEN stopped("store", TRUE)
                ELSE LET found == FilesByFingerprint(fileTable, created.fp)
                     IN [err |-> "none",
                         files |-> AddFile(fileTable, path, created.fp, info.modTime),
                         fileId |-> Len(fileTable) + 1,
                         duplicates |->
                             [i \in 1..Len(found) |-> fileTable[found[i]].path],
                         failed |-> FALSE]
       ELSE IF Unix(fileTable[file].modTimestamp) # Unix(info.modTime)
           THEN [err |-> "none",
                 files |-> IF call = "UpdateFile" THEN fileTable
                           ELSE UpdateFile(fileTable, file, fileTable[file].path,
                                           created.fp, info.modTime),
                 fileId |-> file, duplicates |-> <<>>,
                 failed |-> call = "UpdateFile"]
       ELSE [err |-> "none", files |-> fileTable, fileId |-> file,
             duplicates |-> <<>>, failed |-> FALSE]

\* TagCommand.applyTag while the store call `call` fails:
\* [err, tags, fileTags, failed].
applyTagFailing(tagTable, fileTagTable, fileId, tagName, call) ==
    LET stopped(e, made) == [err |-> e, tags |-> tagTable,
                             fileTags |-> fileTagTable, failed |-> made]
    IN IF HasChar(tagName, ",") THEN stopped("validation", FALSE)
       ELSE IF HasChar(tagName, "=") THEN stopped("validation", FALSE)
       ELSE IF HasChar(tagName, " ") THEN stopped("validation", FALSE)
       ELSE IF Len(tagName) = 0 THEN stopped("panic", FALSE)
       ELSE IF tagName[1] = "-" THEN stopped("validation", FALSE)
       ELSE LET tag == TagByName(tagTable, tagName)
                tags2 == IF tag = 0 THEN AddTag(tagTable, tagName) ELSE tagTable
                tagId == IF tag = 0 THEN Len(tags2) ELSE tag
            IN IF tag = 0 /\ call = "AddTag" THEN stopped("store", TRUE)
               ELSE IF FileTagByFileIdAndTagId(fileTagTable, fileId, tagId)
                   THEN [err |-> "none", tags |-> tags2,
                         fileTags |-> fileTagTable, failed |-> FALSE]
               ELSE IF call = "AddFileTag"
                   THEN [err |-> "store", tags |-> tags2,
                         fileTags |-> fileTagTable, failed |-> TRUE]
               ELSE [err |-> "none", tags |-> tags2,
                     fileTags |-> AddFileTag(fileTagTable, fileId, tagId),
                     failed |-> FALSE]

\* TagCommand.tagPath, with one tag name, while the store call `call` fails:
\* tagPath's result and failed. tagPath begins no transaction and undoes
\* nothing: what was written before the failure stays written.
tagPathFailing(st, f, arg, tagName, call) ==
    LET added == addFileFailing(st.files, f, Abs(arg), call)
        applied == applyTagFailing(st.tags, st.fileTags, added.fileId, tagName, call)
    IN IF added.err # "none"
           THEN [err |-> added.err, files |-> added.files, tags |-> st.tags,
                 fileTags |-> st.fileTags, handleOpen |-> FALSE,
                 failed |-> added.failed]
       ELSE [err |-> applied.err, files |-> added.files, tags |-> applied.tags,
             fileTags |-> applied.fileTags, handleOpen |-> FALSE,
             failed |-> added.failed \/ applied.failed]

RECURSIVE tagPaths(_, _, _, _)
\* tagPaths once tagPath has returned `r` for the first of `args`.
tagPathsTagged(r, f, args, tagNames) ==
    IF r.err # "none"
        THEN [err |-> r.err, files |-> r.files, tags |-> r.tags,
              fileTags |-> r.fileTags, duplicates |-> r.duplicates,
              handleOpen |-> r.handleOpen, attempted |-> 1]
    ELSE Only({ [rest EXCEPT !.duplicates = r.duplicates \o @,
                             !.attempted = @ + 1] :
                rest \in { tagPaths([files |-> r.files, tags |-> r.tags,
                                     fileTags |-> r.fileTags],
                                    f, Tail(args), tagNames) } })

\* TagCommand.tagPaths: [err, files, tags, fileTags, duplicates, handleOpen,
\* attempted]; it returns at the first path whose tagPath fails.
tagPaths(st, f, args, tagNames) ==
    IF args = <<>>
        THEN [err |-> "none", files |-> st.files, tags |-> st.tags,
              fileTags |-> st.fileTags, duplicates |-> <<>>,
              handleOpen |-> FALSE, attempted |-> 0]
    ELSE Only({ tagPathsTagged(r, f, args, tagNames) :
                r \in { tagPath(st, f, Head(args), tagNames) } })

\* ---------------------------------------------------------- status command
\* common.MakeRelative: a path below the working directory is shown relative to it.
MakeRelative(path) ==
    IF IsAncestor(Cwd, path)
        THEN [abs |-> FALSE, comps |-> SubSeq(path, Len(Cwd) + 1, Len(path))]
        ELSE [abs |-> TRUE, comps |-> path]

\* NewReport
NewReport ==
    [Tagged |-> <<>>, Modified |-> <<>>, Missing |-> <<>>, Untagged |-> <<>>,
     Nested |-> <<>>]

\* StatusCommand.addToReport
addToReport(path, status, report) ==
    LET relPath == MakeRelative(path)
    IN CASE status = "UNTAGGED" -> [report EXCEPT !.Untagged = Append(@, relPath)]
         [] status = "TAGGED" -> [report EXCEPT !.Tagged = Append(@, relPath)]
         [] status = "MODIFIED" -> [report EXCEPT !.Modified = Append(@, relPath)]
         [] status = "MISSING" -> [report EXCEPT !.Missing = Append(@, relPath)]
         [] status = "NESTED" -> [report EXCEPT !.Nested = Append(@, relPath)]

\* getTaggedPathStatus comparing the two times to the tick, not to the second.
getTaggedPathStatusExact(entry, f) ==
    LET info == Stat(f, entry.path)
    IN IF info.err = "notexist" THEN [err |-> "none", status |-> "MISSING"]
       ELSE IF info.err # "none" THEN [err |-> info.err, status |-> "UNTAGGED"]
       ELSE IF entry.modTimestamp = info.modTime
           THEN [err |-> "none", status |-> "TAGGED"]
       ELSE [err |-> "none", status |-> "MODIFIED"]

\* StatusCommand.getTaggedPathStatus: [err, status] for a File record.
getTaggedPathStatus(entry, f) ==
    LET info == Stat(f, entry.path)
    IN IF info.err = "notexist" THEN [err |-> "none", status |-> "MISSING"]
       ELSE IF info.err # "none" THEN [err |-> info.err, status |-> "UNTAGGED"]
       ELSE IF Unix(entry.modTimestamp) = Unix(info.modTime)
           THEN [err |-> "none", status |-> "TAGGED"]
       ELSE [err |-> "none", status |-> "MODIFIED"]

RECURSIVE getStatus(_, _, _)
RECURSIVE getUntaggedEntries(_, _, _)

RECURSIVE getUntaggedEntriesShallow(_, _, _)
\* The loop of getUntaggedPathStatus taking a NESTED entry for an untagged one.
getUntaggedEntriesShallow(fileTable, f, entries) ==
    IF entries = <<>> THEN [err |-> "none", status |-> "UNTAGGED"]
    ELSE Only({ IF r.err # "none" THEN [err |-> r.err, status |-> "UNTAGGED"]
                ELSE IF r.status \in {"TAGGED", "MODIFIED"}
                    THEN [err |-> "none", status |-> "NESTED"]
                ELSE getUntaggedEntriesShallow(fileTable, f, Tail(entries)) :
                r \in { getStatus(fileTable, f, Head(entries)) } })

\* The loop of getUntaggedPathStatus over a directory's entries.
getUntaggedEntries(fileTable, f, entries) ==
    IF entries = <<>> THEN [err |-> "none", status |-> "UNTAGGED"]
    ELSE Only({ IF r.err # "none" THEN [err |-> r.err, status |-> "UNTAGGED"]
                ELSE IF r.status \in {"TAGGED", "MODIFIED", "NESTED"}
                    THEN [err |-> "none", status |-> "NESTED"]
                ELSE getUntaggedEntries(fileTable, f, Tail(entries)) :
                r \in { getStatus(fileTable, f, Head(entries)) } })

\* StatusCommand.getUntaggedPathStatus
getUntaggedPathStatus(fileTable, f, path) ==
    IF IsDir(f, path)
        THEN getUntaggedEntries(fileTable, f, Readdir(f, path))
        ELSE [err |-> "none", status |-> "UNTAGGED"]

\* StatusCommand.getStatus: [err, status]; status is read only when err is "none".
getStatus(fileTable, f, path) ==
    LET entry == FileByPath(fileTable, path)
    IN IF entry # NoFile THEN getTaggedPathStatus(fileTable[entry], f)
       ELSE getUntaggedPathStatus(fileTable, f, path)

RECURSIVE statusEntries(_, _, _, _)
\* The loop of status over a directory's entry names.
statusEntries(fileTable, f, entries, report) ==
    IF entries = <<>> THEN [err |-> "none", report |-> report]
    ELSE Only({ IF r.err # "none" THEN [err |-> r.err, report |-> report]
                ELSE Only({ statusEntries(fileTable, f, Tail(entries), added) :
                            added \in { addToReport(Head(entries), r.status,
                                                    report) } }) :
                r \in { getStatus(fileTable, f, Head(entries)) } })

RECURSIVE statusMissingAll(_, _, _, _)
\* The loop of status over the Files stored below a directory, reporting each
\* of them whatever its status.
statusMissingAll(fileTable, f, ids, report) ==
    IF ids = <<>> THEN [err |-> "none", report |-> report]
    ELSE Only({ IF r.err # "none" THEN [err |-> r.err, report |-> report]
                ELSE Only({ statusMissingAll(fileTable, f, Tail(ids), added) :
                            added \in { addToReport(fileTable[Head(ids)].path,
                                                    r.status, report) } }) :
                r \in { getStatus(fileTable, f, fileTable[Head(ids)].path) } })

RECURSIVE statusMissing(_, _, _, _)
\* The loop of status over the Files stored below a directory.
statusMissing(fileTable, f, ids, report) ==
    IF ids = <<>> THEN [err |-> "none", report |-> report]
    ELSE Only({ IF r.err # "none" THEN [err |-> r.err, report |-> report]
                ELSE Only({ statusMissing(fileTable, f, Tail(ids), added) :
                            added \in { IF r.status = "MISSING"
                                            THEN addToReport(fileTable[Head(ids)].path,
                                                             r.status, report)
                                            ELSE report } }) :
                r \in { getStatus(fileTable, f, fileTable[Head(ids)].path) } })

\* The body of the loop of status reporting a path that is not expanded under
\* whatever status it has.
statusClassifiedAny(fileTable, f, absPath, r, report, showDirectory) ==
    IF ~showDirectory /\ isDir(f, absPath)
        THEN IF r.status \in {"TAGGED", "MODIFIED", "MISSING"}
                 THEN [err |-> "none",
                       report |-> addToReport(absPath, r.status, report)]
             ELSE Only({ IF listed.err # "none" THEN listed
                         ELSE statusMissing(fileTable, f,
                                            FilesByDirectory(fileTable, absPath),
                                            listed.report) :
                         listed \in { statusEntries(fileTable, f,
                                                    Readdir(f, absPath), report) } })
    ELSE [err |-> "none", report |-> addToReport(absPath, r.status, report)]

\* The body of the loop of status, getStatus having returned `r` with no error
\* for the path: [err, report].
statusClassified(fileTable, f, absPath, r, report, showDirectory) ==
    IF ~showDirectory /\ isDir(f, absPath)
        THEN IF r.status \in {"TAGGED", "MODIFIED", "MISSING"}
                 THEN [err |-> "none",
                       report |-> addToReport(absPath, r.status, report)]
             ELSE Only({ IF listed.err # "none" THEN listed
                         ELSE statusMissing(fileTable, f,
                                            FilesByDirectory(fileTable, absPath),
                                            listed.report) :
                         listed \in { statusEntries(fileTable, f,
                                                    Readdir(f, absPath), report) } })
    ELSE [err |-> "none",
          report |-> IF r.status = "MISSING"
                         THEN addToReport(absPath, r.status, report)
                         ELSE report]

\* The body of the loop of status for one path argument: [err, report].
statusPath(fileTable, f, arg, report, showDirectory) ==
    Only({ IF r.err # "none" THEN [err |-> r.err, report |-> report]
           ELSE statusClassified(fileTable, f, Abs(arg), r, report, showDirectory) :
           r \in { getStatus(fileTable, f, Abs(arg)) } })

RECURSIVE statusLoop(_, _, _, _, _)
\* The loop of status over its path arguments.
statusLoop(fileTable, f, args, report, showDirectory) ==
    IF args = <<>> THEN [err |-> "none", report |-> report]
    ELSE Only({ IF r.err # "none" THEN r
                ELSE statusLoop(fileTable, f, Tail(args), r.report, showDirectory) :
                r \in { statusPath(fileTable, f, Head(args), report,
                                   showDirectory) } })

\* StatusCommand.status: [err, report, handleOpen]. The handle database.Open
\* returns is not closed on any return.
status(fileTable, f, args, showDirectory) ==
    LET paths == IF args = <<>> THEN << [abs |-> FALSE, comps |-> <<>>] >> ELSE args
    IN Only({ [err |-> r.err, report |-> r.report, handleOpen |-> TRUE] :
              r \in { statusLoop(fileTable, f, paths, NewReport, showDirectory) } })

\* ----------------------------------------------------------- dupes command
\* store.DuplicateFiles: the Files grouped by fingerprint, groups of two or
\* more only, none for the empty fingerprint; groups in the order of their
\* first member, members in id order.
DuplicateFiles(fileTable) ==
    LET ids == [i \in 1..Len(fileTable) |-> i]
        firsts == SelectSeq(ids, LAMBDA i :
                      /\ fileTable[i].fingerprint # EmptyFingerprint
                      /\ \A j \in 1..(i - 1) :
                             fileTable[j].fingerprint # fileTable[i].fingerprint
                      /\ \E j \in (i + 1)..Len(fileTable) :
                             fileTable[j].fingerprint = fileTable[i].fingerprint)
    IN [k \in 1..Len(firsts) |->
           FilesByFingerprint(fileTable, fileTable[firsts[k]].fingerprint)]

\* findDuplicatesInDb printing the first two members of a set only.
findDuplicatesInDbPairs(fileTable) ==
    LET fileSets == DuplicateFiles(fileTable)
    IN [err |-> "none",
        groups |-> [k \in 1..Len(fileSets) |->
                       [m \in 1..2 |->
                           MakeRelative(fileTable[fileSets[k][m]].path)]]]

\* findDuplicatesInDb: [err, groups], each group the relative paths it prints.
findDuplicatesInDb(fileTable) ==
    LET fileSets == DuplicateFiles(fileTable)
    IN [err |-> "none",
        groups |-> [k \in 1..Len(fileSets) |->
                       [m \in 1..Len(fileSets[k]) |->
                           MakeRelative(fileTable[fileSets[k][m]].path)]]]

\* filesystem.Enumerate of one path: the path, then everything on disk below it.
EnumerateOne(f, arg) ==
    LET below == SelectPaths(EntryOrder,
                     { p \in DOMAIN f : IsAncestor(Abs(arg), p) /\ f[p].state # "gone" })
    IN <<arg>> \o [i \in 1..Len(below) |->
                      [abs |-> arg.abs,
                       comps |-> arg.comps
                                   \o SubSeq(below[i], Len(Abs(arg)) + 1, Len(below[i]))]]

\* filesystem.Enumerate
Enumerate(f, args) == Flatten([i \in 1..Len(args) |-> EnumerateOne(f, args[i])])

RECURSIVE statCandidates(_, _, _)
\* The first loop of findDuplicatesOf: [err, wereErrors].
statCandidates(f, args, wereErrors) ==
    IF args = <<>> THEN [err |-> "none", wereErrors |-> wereErrors]
    ELSE LET info == Stat(f, Abs(Head(args)))
         IN IF info.err \in {"notexist", "permission"}
                THEN statCandidates(f, Tail(args), TRUE)
            ELSE IF info.err # "none"
                THEN [err |-> info.err, wereErrors |-> wereErrors]
            ELSE statCandidates(f, Tail(args), wereErrors)

RECURSIVE probeCandidates(_, _, _, _, _, _)
\* The second loop of findDuplicatesOf over the candidates `args`, `count` being
\* len(paths): [err, out, queried]. out holds one block per candidate that
\* printed something; queried the candidates the store was queried for.
probeCandidates(fileTable, f, args, count, out, queried) ==
    IF args = <<>> THEN [err |-> "none", out |-> out, queried |-> queried]
    ELSE LET path == Head(args)
             created == CreateFingerprint(f, Abs(path))
             found == FilesByFingerprint(fileTable, created.fp)
             absPath == Abs(path)
             dupes == SelectSeq(found, LAMBDA i : fileTable[i].path # absPath)
             block == [probe |-> path,
                       header |-> count > 1 /\ Len(dupes) > 0,
                       dupes |-> [i \in 1..Len(dupes) |->
                                     MakeRelative(fileTable[dupes[i]].path)]]
         IN IF created.err # "none"
                THEN [err |-> "fingerprint", out |-> out, queried |-> queried]
            ELSE IF created.fp = EmptyFingerprint
                THEN probeCandidates(fileTable, f, Tail(args), count, out, queried)
            ELSE probeCandidates(fileTable, f, Tail(args), count,
                                 IF Len(dupes) > 0 THEN Append(out, block) ELSE out,
                                 Append(queried, path))

\* findDuplicatesOf: [err, out, queried]. "blank" is errBlank.
findDuplicatesOf(fileTable, f, args, recursive) ==
    LET checked == statCandidates(f, args, FALSE)
        paths == IF recursive THEN Enumerate(f, args) ELSE args
    IN IF checked.err # "none"
           THEN [err |-> checked.err, out |-> <<>>, queried |-> <<>>]
       ELSE IF checked.wereErrors
           THEN [err |-> "blank", out |-> <<>>, queried |-> <<>>]
       ELSE probeCandidates(fileTable, f, paths, Len(paths), <<>>, <<>>)

\* dupesExec: [err, out, queried, groups, handleOpen, committed]. The deferred
\* tx.Commit runs on every return.
dupesExec(fileTable, f, args, recursive) ==
    IF Len(args) = 0
        THEN LET r == findDuplicatesInDb(fileTable)
             IN [err |-> r.err, out |-> <<>>, queried |-> <<>>, groups |-> r.groups,
                 handleOpen |-> FALSE, committed |-> TRUE]
    ELSE LET r == findDuplicatesOf(fileTable, f, args, recursive)
         IN [err |-> r.err, out |-> r.out, queried |-> r.queried, groups |-> <<>>,
             handleOpen |-> FALSE, committed |-> TRUE]

\* ------------------------------------------------------------------- state
VARIABLES
    fs,         \* the live filesystem: path -> [state, mtime, content]
    files,      \* the File table
    tags,       \* the Tag table
    fileTags,   \* the FileTag table
    last,       \* the command that has just run and what it returned, or NoResult
    fsOps,      \* filesystem changes made so far
    tagOps      \* tag commands run so far

vars == <<fs, files, tags, fileTags, last, fsOps, tagOps>>

Store == [files |-> files, tags |-> tags, fileTags |-> fileTags]

EmptyStore == [files |-> <<>>, tags |-> <<>>, fileTags |-> <<>>]

\* Every path a directory or an empty file written at time 0.
NoFs == [p \in AllPaths |-> [state |-> "ok", mtime |-> 0, content |-> 0]]

NoResult ==
    [op |-> "none", paths |-> <<>>, tagNames |-> <<>>, flag |-> FALSE,
     err |-> "none", pre |-> EmptyStore, attempted |-> 0, duplicates |-> <<>>,
     out |-> <<>>, queried |-> <<>>, groups |-> <<>>, report |-> NewReport,
     handleOpen |-> FALSE, committed |-> FALSE, fsAtStart |-> NoFs,
     failedCall |-> "none"]

\* ------------------------------------------------------------------ inputs
TagNameArgs ==
    { <<>>, <<"a">>, <<"a", "=", "b">>, <<"a", ",">>, <<"a", " ", "b">>, <<"-", "a">> }

\* The well-formed names among them.
GoodNames == { <<"a">> }

\* The tag names of one command: tagPath returns at the first malformed name, so
\* the lists end at their first malformed name.
TagNameLists ==
    { s \in NonEmptySeqsUpTo(TagNameArgs, MaxTags) :
          \A i \in 1..(Len(s) - 1) : s[i] \in GoodNames }

\* The quoted argument of --tags.
QuotedArgs == { <<"a">>, <<"a", " ", "-", "a">>, <<" ">> }

PathLists == NonEmptySeqsUpTo(PathArgs, MaxPaths)

Init ==
    /\ fs \in { f \in [AllPaths -> [state : {"ok"}, mtime : {0},
                                     content : 0..MaxContent]] :
                    \A p \in DirPaths : f[p].content = 0 }
    /\ files = <<>>
    /\ tags = <<>>
    /\ fileTags = <<>>
    /\ last = NoResult
    /\ fsOps = 0
    /\ tagOps = 0

\* ----------------------------------------------------------------- actions
\* TagCommand.Exec, "tmsu tag FILE TAG...".
TagExec(arg, tagNames) ==
    /\ last.op = "none"
    /\ tagOps < MaxTagOps
    /\ LET r == tagPath(Store, fs, arg, tagNames)
       IN /\ files' = r.files
          /\ tags' = r.tags
          /\ fileTags' = r.fileTags
          /\ last' = [NoResult EXCEPT !.op = "tag", !.paths = <<arg>>,
                          !.tagNames = tagNames, !.err = r.err, !.pre = Store,
                          !.attempted = 1, !.duplicates = r.duplicates,
                          !.handleOpen = r.handleOpen, !.fsAtStart = fs]
    /\ tagOps' = tagOps + 1
    /\ UNCHANGED <<fs, fsOps>>

\* TagCommand.Exec, "tmsu tag --tags "TAG..." FILE...".
TagExecTags(quoted, args) ==
    /\ last.op = "none"
    /\ tagOps < MaxTagOps
    /\ LET tagNames == Fields(quoted)
           r == tagPaths(Store, fs, args, tagNames)
       IN /\ files' = r.files
          /\ tags' = r.tags
          /\ fileTags' = r.fileTags
          /\ last' = [NoResult EXCEPT !.op = "tags", !.paths = args,
                          !.tagNames = tagNames, !.err = r.err, !.pre = Store,
                          !.attempted = r.attempted, !.duplicates = r.duplicates,
                          !.handleOpen = r.handleOpen, !.fsAtStart = fs]
    /\ tagOps' = tagOps + 1
    /\ UNCHANGED <<fs, fsOps>>

\* TagCommand.Exec, "tmsu tag FILE TAG", while a store call fails.
TagExecStoreFails(arg, tagName, call) ==
    /\ last.op = "none"
    /\ tagOps < MaxTagOps
    /\ LET r == tagPathFailing(Store, fs, arg, tagName, call)
       IN /\ r.failed
          /\ files' = r.files
          /\ tags' = r.tags
          /\ fileTags' = r.fileTags
          /\ last' = [NoResult EXCEPT !.op = "tag", !.paths = <<arg>>,
                          !.tagNames = <<tagName>>, !.err = r.err, !.pre = Store,
                          !.attempted = 1, !.handleOpen = r.handleOpen,
                          !.fsAtStart = fs, !.failedCall = call]
    /\ tagOps' = tagOps + 1
    /\ UNCHANGED <<fs, fsOps>>

\* Another process writes new content to a regular file, at a new time.
Written(f, path, content, t) ==
    [f EXCEPT ![path].content = content, ![path].mtime = t]

\* TagCommand.Exec, "tmsu tag FILE TAG", while another process writes to a
\* regular file between addFile's fingerprint.Create and its stats.
TagExecRaced(arg, tagNames, path, content, t) ==
    /\ last.op = "none"
    /\ tagOps < MaxTagOps
    /\ fsOps < MaxFsOps
    /\ fs[path].state = "ok"
    /\ fs[path].content # content
    /\ fs[path].mtime # t
    /\ LET g == Written(fs, path, content, t)
           r == tagPathRaced(Store, fs, g, arg, tagNames)
       IN /\ fs' = g
          /\ files' = r.files
          /\ tags' = r.tags
          /\ fileTags' = r.fileTags
          /\ last' = [NoResult EXCEPT !.op = "tag", !.paths = <<arg>>,
                          !.tagNames = tagNames, !.err = r.err, !.pre = Store,
                          !.attempted = 1, !.duplicates = r.duplicates,
                          !.handleOpen = r.handleOpen, !.fsAtStart = fs]
    /\ tagOps' = tagOps + 1
    /\ fsOps' = fsOps + 1

\* StatusCommand.Exec: the report is printed only when status returns no error.
StatusExec(args, showDirectory) ==
    /\ last.op = "none"
    /\ LET r == status(files, fs, args, showDirectory)
       IN last' = [NoResult EXCEPT !.op = "status", !.paths = args,
                      !.flag = showDirectory, !.err = r.err, !.pre = Store,
                      !.report = IF r.err = "none" THEN r.report ELSE NewReport,
                      !.handleOpen = r.handleOpen]
    /\ UNCHANGED <<fs, files, tags, fileTags, fsOps, tagOps>>

\* dupesExec
DupesExec(args, recursive) ==
    /\ last.op = "none"
    /\ LET r == dupesExec(files, fs, args, recursive)
       IN last' = [NoResult EXCEPT !.op = "dupes", !.paths = args,
                      !.flag = recursive, !.err = r.err, !.pre = Store,
                      !.out = r.out, !.queried = r.queried, !.groups = r.groups,
                      !.handleOpen = r.handleOpen, !.committed = r.committed]
    /\ UNCHANGED <<fs, files, tags, fileTags, fsOps, tagOps>>

\* The command's process ends; the next command starts afresh.
Exit ==
    /\ last.op # "none"
    /\ last' = NoResult
    /\ UNCHANGED <<fs, files, tags, fileTags, fsOps, tagOps>>

\* Another process changes a path's modification time.
Touch(path, t) ==
    /\ last.op = "none"
    /\ fsOps < MaxFsOps
    /\ fs[path].state = "ok"
    /\ fs[path].mtime # t
    /\ fs' = [fs EXCEPT ![path].mtime = t]
    /\ fsOps' = fsOps + 1
    /\ UNCHANGED <<files, tags, fileTags, last, tagOps>>

\* Another process writes new content to a regular file.
Write(path, content, t) ==
    /\ last.op = "none"
    /\ fsOps < MaxFsOps
    /\ fs[path].state = "ok"
    /\ fs[path].content # content
    /\ fs[path].mtime # t
    /\ fs' = Written(fs, path, content, t)
    /\ fsOps' = fsOps + 1
    /\ UNCHANGED <<files, tags, fileTags, last, tagOps>>

\* Another process deletes a path and everything below it.
Delete(path) ==
    /\ last.op = "none"
    /\ fsOps < MaxFsOps
    /\ fs[path].state # "gone"
    /\ fs' = [p \in AllPaths |->
                 IF IsPrefix(path, p) THEN [fs[p] EXCEPT !.state = "gone"] ELSE fs[p]]
    /\ fsOps' = fsOps + 1
    /\ UNCHANGED <<files, tags, fileTags, last, tagOps>>

\* A path becomes unreadable: stat fails with permission denied or an I/O error.
Break(path, how) ==
    /\ last.op = "none"
    /\ fsOps < MaxFsOps
    /\ fs[path].state = "ok"
    /\ fs' = [fs EXCEPT ![path].state = how]
    /\ fsOps' = fsOps + 1
    /\ UNCHANGED <<files, tags, fileTags, last, tagOps>>

Next ==
    \/ \E arg \in PathArgs, tagNames \in TagNameLists : TagExec(arg, tagNames)
    \/ \E quoted \in QuotedArgs, args \in PathLists : TagExecTags(quoted, args)
    \/ \E args \in SeqsUpTo(PathArgs, MaxPaths), showDirectory \in BOOLEAN :
           StatusExec(args, showDirectory)
    \/ \E args \in SeqsUpTo(PathArgs, MaxPaths), recursive \in BOOLEAN :
           DupesExec(args, recursive)
    \/ Exit
    \/ \E path \in AllPaths, t \in 0..MaxTime : Touch(path, t)
    \/ \E path \in FilePaths, content \in 0..MaxContent, t \in 0..MaxTime :
           Write(path, content, t)
    \/ \E arg \in PathArgs, path \in FilePaths, content \in 0..MaxContent,
          t \in 0..MaxTime :
           TagExecRaced(arg, << <<"a">> >>, path, content, t)
    \/ \E arg \in PathArgs, call \in StoreCalls :
           TagExecStoreFails(arg, <<"a">>, call)
    \/ \E path \in AllPaths : Delete(path)
    \/ \E path \in AllPaths, how \in {"denied", "ioerr"} : Break(path, how)

Spec == Init /\ [][Next]_vars

\* --------------------------------------------- duplicates of a stored table
\* The global mode of dupes reads the File table only. It is run on every table
\* of up to MaxStored Files at distinct paths, each with the empty or another
\* fingerprint.
MaxStored == 3

StoredPaths == { <<"a", "b", "c">>, <<"a", "x">>, <<"a", "y">> }

StoredFingerprints == { EmptyFingerprint, <<1>>, <<2>> }

FileTables ==
    { t \in SeqsUpTo([path : StoredPaths, fingerprint : StoredFingerprints,
                      modTimestamp : {0}], MaxStored) :
          \A i, j \in 1..Len(t) : t[i].path = t[j].path => i = j }

InitDb ==
    /\ fs = [p \in AllPaths |-> [state |-> "ok", mtime |-> 0, content |-> 0]]
    /\ files \in FileTables
    /\ tags = <<>>
    /\ fileTags = <<>>
    /\ last = NoResult
    /\ fsOps = 0
    /\ tagOps = 0

NextDb ==
    \/ \E recursive \in BOOLEAN : DupesExec(<<>>, recursive)
    \/ Exit

SpecDb == InitDb /\ [][NextDb]_vars

\* ------------------------------------------------------------------ claims
TagOps == {"tag", "tags"}

RegisteredPaths == { files[i].path : i \in 1..Len(files) }

\* A malformed tag name: empty, or holding a comma, '=' or a space, or
\* starting with '-'.
Malformed(name) ==
    \/ Len(name) = 0
    \/ \E i \in 1..Len(name) : name[i] \in {",", "=", " "}
    \/ name[1] = "-"

\* C1: no two File records have paths of which one is an ancestor, at any
\* distance, of the other.
C1_NoNestedFiles ==
    \A i, j \in 1..Len(files) : ~IsAncestor(files[i].path, files[j].path)

\* C2: a path with a File record classifies as TAGGED while it exists with the
\* recorded modification time (to the second), as MODIFIED while it exists with
\* another, as MISSING while it does not exist, and never as UNTAGGED or NESTED.
C2_ClassifyRegistered ==
    \A i \in 1..Len(files) :
        LET info == Stat(fs, files[i].path)
            r == getStatus(files, fs, files[i].path)
            same == Unix(info.modTime) = Unix(files[i].modTimestamp)
        IN /\ (info.err = "none" /\ same)
                  => r = [err |-> "none", status |-> "TAGGED"]
           /\ (info.err = "none" /\ ~same)
                  => r = [err |-> "none", status |-> "MODIFIED"]
           /\ info.err = "notexist"
                  => r = [err |-> "none", status |-> "MISSING"]
           /\ r.err = "none" => r.status \notin {"UNTAGGED", "NESTED"}

\* C2's case: the status of a directory lists a tagged file, touched into
\* another second since, as modified.
C2_Witness ==
    /\ last.op = "status"
    /\ last.paths = << [abs |-> TRUE, comps |-> <<"a">>] >>
    /\ ~last.flag
    /\ <<"a", "x">> \in RegisteredPaths
    /\ Stat(fs, <<"a", "x">>).err = "none"
    /\ [abs |-> FALSE, comps |-> <<"x">>] \in Range(last.report.Modified)

\* C3: a tag command that returns a validation error has written nothing to
\* the store.
C3_ValidationBeforeAnyWrite ==
    (last.op \in TagOps /\ last.err = "validation") => Store = last.pre

\* The duplicates probe mode owes a candidate: the stored Files with the
\* candidate's live fingerprint, but for the one at the candidate's own path.
ExpectedDupes(arg) ==
    LET fp == FingerprintOf(fs, Abs(arg))
        ids == SelectSeq([i \in 1..Len(files) |-> i],
                         LAMBDA i : files[i].fingerprint = fp
                                        /\ files[i].path # Abs(arg))
    IN [k \in 1..Len(ids) |-> MakeRelative(files[ids[k]].path)]

Readable(arg) == Stat(fs, Abs(arg)).err = "none"

\* C4: when a candidate of probe mode does not exist or is unreadable, the
\* duplicates of every valid candidate are still reported, and the command
\* then signals the partial failure.
C4_BadCandidateKeepsResults ==
    (/\ last.op = "dupes"
     /\ \E i \in 1..Len(last.paths) :
            Stat(fs, Abs(last.paths[i])).err \in {"notexist", "permission"})
        => /\ last.err = "blank"
           /\ \A i \in 1..Len(last.paths) :
                  (/\ Readable(last.paths[i])
                   /\ FingerprintOf(fs, Abs(last.paths[i])) # EmptyFingerprint
                   /\ Len(ExpectedDupes(last.paths[i])) > 0)
                      => \E k \in 1..Len(last.out) :
                             /\ last.out[k].probe = last.paths[i]
                             /\ last.out[k].dupes = ExpectedDupes(last.paths[i])

\* Number of Tag records with that name, and of FileTag records for that pair.
TagCount(name) == Cardinality({ i \in 1..Len(tags) : tags[i] = name })

FileTagCount(fileId, tagId) ==
    Cardinality({ i \in 1..Len(fileTags) :
                    fileTags[i] = [fileId |-> fileId, tagId |-> tagId] })

\* C5: however often a tag is applied to a file, there is one Tag record for its
\* name and one FileTag record for the pair, and applying it again returns no
\* error and adds nothing.
C5_TaggingIdempotent ==
    /\ \A i \in 1..Len(tags) : TagCount(tags[i]) = 1
    /\ \A i \in 1..Len(fileTags) :
           FileTagCount(fileTags[i].fileId, fileTags[i].tagId) = 1
    /\ \A i \in 1..Len(fileTags) :
           applyTag(tags, fileTags, fileTags[i].fileId, tags[fileTags[i].tagId])
               = [err |-> "none", tags |-> tags, fileTags |-> fileTags]
    /\ (last.op \in TagOps /\ last.err = "none")
           => \A n \in 1..Len(last.tagNames), k \in 1..Len(last.paths) :
                  /\ TagCount(last.tagNames[n]) = 1
                  /\ FileTagCount(FileByPath(files, Abs(last.paths[k])),
                                  TagByName(tags, last.tagNames[n])) = 1

\* C5's case: a tag command has applied, without error, a tag the file already
\* carried before the command.
C5_Witness ==
    /\ last.op = "tag"
    /\ last.err = "none"
    /\ Len(last.pre.fileTags) > 0
    /\ last.pre.fileTags = fileTags
    /\ FileTagByFileIdAndTagId(last.pre.fileTags,
                               FileByPath(last.pre.files, Abs(last.paths[1])),
                               TagByName(last.pre.tags, last.tagNames[1]))

\* The candidates probe mode goes through: with --recursive, the enumeration.
Candidates == IF last.flag THEN Enumerate(fs, last.paths) ELSE last.paths

\* C6: a candidate with the empty fingerprint is skipped by probe mode without a
\* store query or any output, and a file with the empty fingerprint that a tag
\* command registers is not called a duplicate of the Files tagged before.
C6_EmptyFingerprintNeverDuplicate ==
    /\ last.op = "dupes"
           => \A i \in 1..Len(Candidates) :
                  (/\ Readable(Candidates[i])
                   /\ FingerprintOf(fs, Abs(Candidates[i])) = EmptyFingerprint)
                      => /\ Candidates[i] \notin Range(last.queried)
                         /\ \A k \in 1..Len(last.out) :
                                last.out[k].probe # Candidates[i]
    /\ last.op \in TagOps
           => \A k \in 1..Len(last.duplicates) :
                  files[FileByPath(files, last.duplicates[k].path)].fingerprint
                      # EmptyFingerprint

\* C7: probe mode reports for every candidate with a non-empty live fingerprint
\* exactly the stored Files with that fingerprint, but for the one at the
\* candidate's own path, and under the candidate's name when there are several.
C7_ProbeReportsExactly ==
    last.op = "dupes" /\ Len(last.paths) > 0
        => /\ \A i \in 1..Len(Candidates) :
                  (/\ Readable(Candidates[i])
                   /\ FingerprintOf(fs, Abs(Candidates[i])) # EmptyFingerprint
                   /\ Len(ExpectedDupes(Candidates[i])) > 0)
                      => \E k \in 1..Len(last.out) :
                             /\ last.out[k].probe = Candidates[i]
                             /\ last.out[k].dupes = ExpectedDupes(Candidates[i])
                             /\ Len(Candidates) > 1 => last.out[k].header
           /\ \A k \in 1..Len(last.out) :
                  last.out[k].dupes = ExpectedDupes(last.out[k].probe)

RECURSIVE tagEachPath(_, _, _, _)
\* The store after every path of a batch has been tagged for itself, a failure
\* ending that path's processing only.
tagEachPath(st, f, args, tagNames) ==
    IF args = <<>> THEN st
    ELSE LET r == tagPath(st, f, Head(args), tagNames)
         IN tagEachPath([files |-> r.files, tags |-> r.tags, fileTags |-> r.fileTags],
                        f, Tail(args), tagNames)

\* C8: a batch tag command processes each of its paths; a failure on one path
\* leaves the others, those after it too, tagged.
C8_BatchPathsIndependent ==
    last.op = "tags"
        => /\ last.attempted = Len(last.paths)
           /\ Store = tagEachPath(last.pre, fs, last.paths, last.tagNames)

\* C9: a command leaves no store handle open when it ends, and commits its
\* transaction only when it ends without error.
C9_HandleReleased ==
    last.op # "none"
        => /\ ~last.handleOpen
           /\ last.committed => last.err = "none"

\* The first malformed name of the command's tag names, if any.
FirstMalformed(names) ==
    IF \E i \in 1..Len(names) : Malformed(names[i])
        THEN CHOOSE i \in 1..Len(names) :
                 Malformed(names[i]) /\ \A j \in 1..(i - 1) : ~Malformed(names[j])
        ELSE 0

\* C10: applying a malformed tag name ends in a validation error and no other
\* outcome, and no Tag record has a malformed name.
C10_MalformedNameIsValidationError ==
    /\ (/\ last.op \in TagOps
        /\ last.err \notin {"notexist", "permission", "io", "hierarchy"}
        /\ FirstMalformed(last.tagNames) # 0)
           => last.err = "validation"
    /\ \A i \in 1..Len(tags) : ~Malformed(tags[i])

\* The fingerprint stored for the File a printed relative path names.
StoredFingerprint(rel) == files[FileByPath(files, Abs(rel))].fingerprint

StoreBeforeLastPath ==
    LET done == tagPaths(last.pre, fs, SubSeq(last.paths, 1, last.attempted - 1),
                         last.tagNames)
    IN [files |-> done.files, tags |-> done.tags, fileTags |-> done.fileTags]

\* C12: tagging a path that the hierarchy validator rejects leaves the store as
\* it was before that path was processed: no File, Tag or FileTag record is
\* added or updated.
C12_HierarchyRejectionWritesNothing ==
    /\ (last.op = "tag" /\ last.err = "hierarchy") => Store = last.pre
    /\ (last.op = "tags" /\ last.err = "hierarchy") => Store = StoreBeforeLastPath
    /\ last.op = "none"
           => \A arg \in PathArgs :
                  LET r == tagPath(Store, fs, arg, <<<<"a">>>>)
                  IN r.err = "hierarchy"
                         => [files |-> r.files, tags |-> r.tags,
                             fileTags |-> r.fileTags] = Store

\* C12's case: tagging a directory is rejected because a file below it is
\* registered.
C12_Witness ==
    /\ last.op = "tag"
    /\ last.err = "hierarchy"
    /\ last.paths = << [abs |-> TRUE, comps |-> <<"a">>] >>
    /\ <<"a", "x">> \in RegisteredPaths
    /\ <<"a">> \notin RegisteredPaths
    /\ Store = last.pre

\* C13: whatever another process does to a file while a tag command runs, the
\* File record the command writes for a regular file pairs a modification time
\* with the fingerprint of the content the file had at that time: the pair is
\* the file's before the other process wrote, or the file's after.
C13_TimestampMatchesFingerprint ==
    (last.op \in TagOps /\ last.err = "none")
        => \A k \in 1..Len(last.paths) :
               LET path == Abs(last.paths[k])
                   id == FileByPath(files, path)
                   old == FileByPath(last.pre.files, path)
                   written == old = NoFile \/ last.pre.files[old] # files[id]
               IN (path \in FilePaths /\ written)
                      => \E g \in {last.fsAtStart, fs} :
                             /\ Stat(g, path).err = "none"
                             /\ files[id].modTimestamp = Stat(g, path).modTime
                             /\ files[id].fingerprint = FingerprintOf(g, path)

\* C14: tagging a path that already has a File record does not fail with a
\* hierarchy conflict, whatever has been registered since, and succeeds when
\* the path is readable and the tag names are well-formed. The path looked at
\* is the last one the command attempted.
C14_RetagSkipsValidation ==
    (last.op \in TagOps /\ last.attempted >= 1)
        => LET path == Abs(last.paths[last.attempted])
           IN FileByPath(StoreBeforeLastPath.files, path) # NoFile
                  => /\ last.err # "hierarchy"
                     /\ (/\ Stat(fs, path).err = "none"
                         /\ \A n \in 1..Len(last.tagNames) :
                                ~Malformed(last.tagNames[n]))
                            => last.err = "none"

\* The paths the recursive walk from the unregistered directory `dir` reaches:
\* the entries on disk of `dir` and of every unregistered directory reached.
Reached(dir) ==
    { p \in AllPaths :
        /\ IsAncestor(dir, p)
        /\ fs[p].state # "gone"
        /\ \A q \in AllPaths :
               (IsPrefix(dir, q) /\ IsAncestor(q, p))
                   => isDir(fs, q) /\ FileByPath(files, q) = NoFile }

\* C15: a directory with no File record that classifies at all classifies as
\* NESTED when the walk reaches a path with a File record that is there to be
\* stat'ed (it classifies as TAGGED or MODIFIED, and every directory between
\* as NESTED), and as UNTAGGED otherwise; so when every registered path below
\* it is missing from disk, it is UNTAGGED.
C15_NestedIffTaggedBelow ==
    \A dir \in DirPaths :
        (isDir(fs, dir) /\ FileByPath(files, dir) = NoFile)
            => LET r == getStatus(files, fs, dir)
                   below == { p \in Reached(dir) :
                                /\ FileByPath(files, p) # NoFile
                                /\ Stat(fs, p).err = "none" }
               IN /\ r.err = "none"
                         => r.status = IF below # {} THEN "NESTED" ELSE "UNTAGGED"
                  /\ (\A p \in Reached(dir) : Stat(fs, p).err = "none")
                         => r.err = "none"

\* C15's case: the status of an unregistered directory lists a subdirectory as
\* NESTED for the registered file in it, and the directory itself is NESTED.
C15_Witness ==
    /\ last.op = "status"
    /\ ~last.flag
    /\ last.paths = << [abs |-> TRUE, comps |-> <<"a">>] >>
    /\ RegisteredPaths = { <<"a", "b", "c">> }
    /\ [abs |-> FALSE, comps |-> <<"b">>] \in Range(last.report.Nested)
    /\ getStatus(files, fs, <<"a">>) = [err |-> "none", status |-> "NESTED"]

\* C16: classifying a path whose stat fails for another reason than "not
\* found" returns an error and no status, whether or not the path has a File
\* record, and a status command given such a path ends with an error.
C16_StatFailureIsFatal ==
    /\ \A p \in AllPaths :
           Stat(fs, p).err \in {"permission", "io"}
               => getStatus(files, fs, p).err # "none"
    /\ (/\ last.op = "status"
        /\ \E k \in 1..Len(last.paths) :
               Stat(fs, Abs(last.paths[k])).err \in {"permission", "io"})
           => last.err # "none"

\* The lines of a report: each path with the status it is listed under.
ReportLines(report) ==
    [i \in 1..Len(report.Tagged) |-> [status |-> "TAGGED", path |-> report.Tagged[i]]]
        \o [i \in 1..Len(report.Modified) |->
               [status |-> "MODIFIED", path |-> report.Modified[i]]]
        \o [i \in 1..Len(report.Missing) |->
               [status |-> "MISSING", path |-> report.Missing[i]]]
        \o [i \in 1..Len(report.Untagged) |->
               [status |-> "UNTAGGED", path |-> report.Untagged[i]]]
        \o [i \in 1..Len(report.Nested) |->
               [status |-> "NESTED", path |-> report.Nested[i]]]

\* The directory a status command with one path argument, or none, is about.
StatusDir == IF last.paths = <<>> THEN Cwd ELSE Abs(last.paths[1])

\* C17: the report of a status command, without --directory, for one directory
\* on disk. When the directory has no File record the report lists each entry
\* on disk of the directory once, under the entry's own status, and as MISSING
\* each File stored below the directory, at any depth, whose path is not on
\* disk, and nothing else. When the directory has a File record the report
\* lists the directory alone.
C17_DirectoryReport ==
    (/\ last.op = "status"
     /\ ~last.flag
     /\ last.err = "none"
     /\ Len(last.paths) <= 1
     /\ isDir(fs, StatusDir))
        => LET lines == ReportLines(last.report)
               entries == Readdir(fs, StatusDir)
               expected ==
                   IF FileByPath(files, StatusDir) # NoFile
                       THEN { [status |-> getStatus(files, fs, StatusDir).status,
                               path |-> MakeRelative(StatusDir)] }
                   ELSE { [status |-> getStatus(files, fs, entries[i]).status,
                           path |-> MakeRelative(entries[i])] :
                          i \in 1..Len(entries) }
                        \cup
                        { [status |-> "MISSING", path |-> MakeRelative(files[i].path)] :
                          i \in { j \in 1..Len(files) :
                                    /\ IsAncestor(StatusDir, files[j].path)
                                    /\ Stat(fs, files[j].path).err = "notexist" } }
           IN /\ Range(lines) = expected
              /\ Len(lines) = Cardinality(expected)

\* C17's case: the status of an unregistered directory lists its two entries
\* and, as missing, the registered file that has been deleted from a
\* subdirectory.
C17_Witness ==
    /\ last.op = "status"
    /\ ~last.flag
    /\ last.err = "none"
    /\ last.paths = << [abs |-> TRUE, comps |-> <<"a">>] >>
    /\ Len(Readdir(fs, <<"a">>)) = 2
    /\ last.report.Missing = << [abs |-> FALSE, comps |-> <<"b", "c">>] >>
    /\ Len(ReportLines(last.report)) = 3

\* C18: a tag command during which a store call fails ends with the store's
\* error, and leaves the store as it was before the command.
C18_StoreFailureIsFatal ==
    (last.op \in TagOps /\ last.failedCall # "none")
        => /\ last.err = "store"
           /\ Store = last.pre

\* A tag command that ran with no concurrent write and no failing store call.
Undisturbed == last.fsAtStart = fs /\ last.failedCall = "none"

\* C19: a tag command ending without error on a path that already had a File
\* record sets the record's fingerprint and modification time to the live ones
\* when the live modification time is in another second than the stored one,
\* after which the path classifies as TAGGED, and leaves the record as it was
\* when they are in the same second; either way no File record is added for
\* the path.
C19_UpdateOnModTimeChange ==
    (last.op \in TagOps /\ last.err = "none" /\ Undisturbed)
        => \A k \in 1..Len(last.paths) :
               LET path == Abs(last.paths[k])
                   old == FileByPath(last.pre.files, path)
                   stored == last.pre.files[old]
                   info == Stat(fs, path)
               IN old # NoFile
                      => /\ Cardinality({ i \in 1..Len(files) :
                                             files[i].path = path }) = 1
                         /\ FileByPath(files, path) = old
                         /\ Unix(stored.modTimestamp) # Unix(info.modTime)
                                => /\ files[old] = [path |-> path,
                                                    fingerprint |-> FingerprintOf(fs, path),
                                                    modTimestamp |-> info.modTime]
                                   /\ getStatus(files, fs, path)
                                          = [err |-> "none", status |-> "TAGGED"]
                         /\ Unix(stored.modTimestamp) = Unix(info.modTime)
                                => files[old] = stored

\* C19's case: a registered file rewritten in another second is tagged again,
\* and its record takes the new fingerprint and modification time.
C19_Witness ==
    /\ last.op = "tag"
    /\ last.err = "none"
    /\ Undisturbed
    /\ Len(last.pre.files) = 1
    /\ Len(files) = 1
    /\ files[1].path \in FilePaths
    /\ files[1].path = Abs(last.paths[1])
    /\ files[1].fingerprint # last.pre.files[1].fingerprint
    /\ Unix(files[1].modTimestamp) # Unix(last.pre.files[1].modTimestamp)

\* C20: no step, of a command or of another process, removes a File record:
\* every File keeps its id and its path, so the registered paths only grow;
\* and a registered path that is no longer on disk classifies as MISSING.
C20_FileRecordsKept ==
    /\ [][/\ Len(files') >= Len(files)
          /\ \A i \in 1..Len(files) : files'[i].path = files[i].path]_vars
    /\ [](\A i \in 1..Len(files) :
              Stat(fs, files[i].path).err = "notexist"
                  => getStatus(files, fs, files[i].path)
                         = [err |-> "none", status |-> "MISSING"])

\* C20's case: a tag command on a registered path deleted from disk has failed
\* and the path still has its File record, classified as MISSING.
C20_Witness ==
    /\ last.op = "tag"
    /\ last.err = "notexist"
    /\ Abs(last.paths[1]) \in RegisteredPaths
    /\ files = last.pre.files
    /\ getStatus(files, fs, Abs(last.paths[1])) = [err |-> "none", status |-> "MISSING"]

\* The path arguments a status command goes through: "." when it is given none.
StatusArgs ==
    IF last.paths = <<>> THEN << [abs |-> FALSE, comps |-> <<>>] >> ELSE last.paths

====
